---- MODULE Spec2Model ----
(***************************************************************************)
(* spd: addressing rules of EE1004 Serial Presence Detect EEPROMs.         *)
(* The crate is a set of pure functions over u8/usize values; the model    *)
(* applies each of them to inputs drawn from their whole type and keeps    *)
(* arguments and results in variables.                                     *)
(***************************************************************************)
EXTENDS Integers, Sequences, FiniteSets, TLC

VARIABLES
    pc,        \* position of the caller / of the alladdr test
    func,      \* `self` of to_device_code
    code,      \* Option<u8> returned by to_device_code(func)
    back,      \* Option<Function> returned by from_device_code on that code
    i,         \* loop variable of tests::alladdr
    decoded,   \* Option<Function>: from_device_code(i) in tests::alladdr
    recoded,   \* Option<u8>: func.to_device_code() in tests::alladdr
    page,      \* a constructed Page
    pageOffset,\* result of page.offset()
    name,      \* `self` of Offset::within
    buf,       \* `buf` of Offset::within
    byte       \* outcome of Offset::within: Some(byte) or Panic

vars == <<pc, func, code, back, i, decoded, recoded, page, pageOffset,
          name, buf, byte>>

-----------------------------------------------------------------------------
(* Bounds of the model *)

\* buffers handed to Offset::within have 0 .. MAX_SIZE + MaxExtraLen bytes
MaxExtraLen == 1
\* buffer contents are drawn from the fill patterns 0 .. MaxSeed
MaxSeed == 1

-----------------------------------------------------------------------------
(* Types and constants *)

U8_MAX == 255
u8 == 0 .. U8_MAX

MAX_DEVICES == 8
MAX_SIZE == 512
PAGE_SIZE == 256

\* Option<T>
None == [some |-> FALSE]
Some(v) == [some |-> TRUE, val |-> v]

\* the outcome of a slice index that fails its bounds check
Panic == [some |-> FALSE, panic |-> "index out of bounds"]

\* pub struct Page(pub u8): a tuple struct, field .0 is p[1]
Page(p) == <<p>>

\* enum Function
Temperature(addr) == [tag |-> "Temperature", addr |-> addr]
Memory(addr) == [tag |-> "Memory", addr |-> addr]
ProtectionStatus(block) == [tag |-> "ProtectionStatus", block |-> block]
ClearAllWriteProtection == [tag |-> "ClearAllWriteProtection"]
PageAddress(p) == [tag |-> "PageAddress", page |-> p]

Function ==
    {Temperature(a) : a \in u8} \cup {Memory(a) : a \in u8}
    \cup {ProtectionStatus(b) : b \in u8} \cup {ClearAllWriteProtection}
    \cup {PageAddress(Page(p)) : p \in u8}

\* enum Offset, with its discriminants
Offset == [
    SPDDeviceSize |-> 0,
    SPDRevision |-> 1,
    DRAMDeviceType |-> 2,
    ModuleType |-> 3,
    SDRAMDensity |-> 4,
    PrimarySDRAMPackageType |-> 5,
    SDRAMOptionalFeatures |-> 7,
    SDRAMThermalOptions |-> 8,
    OtherSDRAMFeatures |-> 9,
    SecondarySDRAMPackageType |-> 10,
    ModuleNominalVoltage |-> 11,
    ModuleOrganization |-> 12,
    ModuleMemoryBusWidth |-> 13,
    ExtendedModuleType |-> 15,
    Timebases |-> 17,
    TCkAvgMin |-> 18,
    TCkAvgMax |-> 19,
    CASLatencies0 |-> 20,
    CASLatencies1 |-> 21,
    CASLatencies2 |-> 22,
    CASLatencies3 |-> 23,
    TAAMin |-> 24,
    TRCDMin |-> 25,
    TRPMin |-> 26,
    UpperNibblesTRASMin |-> 27,
    TRASMin |-> 28,
    TRCMin |-> 29,
    TRFC1MinLSB |-> 30,
    TRFC1MinMSB |-> 31,
    TRFC2MinLSB |-> 32,
    TRFC2MinMSB |-> 33,
    TRFC4MinLSB |-> 34,
    TRFC4MinMSB |-> 35,
    TFAWminMSB |-> 36,
    TFAWminLSB |-> 37,
    TRRDSMin |-> 38,
    TRRDLMin |-> 39,
    UpperNibbleTWRMin |-> 41,
    TWRMin |-> 42,
    UpperNibblesTWTRMin |-> 43,
    TWTRSMin |-> 44,
    TWTRLMin |-> 45,
    TCCDLMinFine |-> 117,
    TRRDLMinFine |-> 118,
    TRRDSMinFine |-> 119,
    TRCMinFind |-> 120,
    TRPMinFine |-> 121,
    TRCDMinFine |-> 122,
    TAAMinFine |-> 123,
    TCkAvgMaxFine |-> 124,
    TCkAvgMinFine |-> 125,
    CRCBaseLSB |-> 126,
    CRCBaseMSB |-> 127,
    ModuleManufacturerIDCodeLSB |-> 320,
    ModuleManufacturerIDCodeMSB |-> 321,
    ModuleManufacturingLocation |-> 322,
    ModuleManufacturingDateYear |-> 323,
    ModuleManufacturingDateWeek |-> 324,
    ModuleSerialNumber0 |-> 325,
    ModuleSerialNumber1 |-> 326,
    ModuleSerialNumber2 |-> 327,
    ModuleSerialNumber3 |-> 328,
    PartNumberBase |-> 329,
    PartNumberLimit |-> 348,
    DRAMManufacturerIDCodeLSB |-> 350,
    DRAMManufacturerIDCodeMSB |-> 351,
    DRAMStepping |-> 352
]

OffsetNames == DOMAIN Offset

-----------------------------------------------------------------------------
(* u8 arithmetic *)

Pow2(n) == 2 ^ n

\* x >> n on u8
Shr(x, n) == x \div Pow2(n)

\* x << n on u8 (bits shifted out are lost)
Shl(x, n) == (x * Pow2(n)) % (U8_MAX + 1)

RECURSIVE BitAnd(_, _)
BitAnd(x, y) ==
    IF x = 0 \/ y = 0 THEN 0
    ELSE (x % 2) * (y % 2) + 2 * BitAnd(x \div 2, y \div 2)

RECURSIVE BitOr(_, _)
BitOr(x, y) ==
    IF x = 0 THEN y
    ELSE IF y = 0 THEN x
    ELSE (IF x % 2 = 1 \/ y % 2 = 1 THEN 1 ELSE 0) + 2 * BitOr(x \div 2, y \div 2)

-----------------------------------------------------------------------------
(* The functions of the crate *)

\* Page::offset computed as page number times page size
offset_scaled(self) == self[1] * PAGE_SIZE

\* Page::offset
offset(self) == IF self[1] = 0 THEN 0 ELSE PAGE_SIZE

\* Offset::to_usize
to_usize(self) == Offset[self]

\* Offset::within indexing one byte too low
within_off_by_one(self, b) ==
    IF Offset[self] < Len(b) /\ Offset[self] >= 1 THEN Some(b[Offset[self]])
    ELSE IF Offset[self] < Len(b) THEN Some(b[1])
    ELSE Panic

\* Offset::within: buf[self as usize], a bounds-checked slice index
within(self, b) ==
    IF Offset[self] < Len(b) THEN Some(b[Offset[self] + 1]) ELSE Panic

\* Function::to_device_code masking the payload instead of range-checking it
to_device_code_truncating(self) ==
    CASE self.tag = "Temperature" -> Some(BitOr(Shl(3, 3), BitAnd(self.addr, 7)))
      [] self.tag = "Memory" -> Some(BitOr(Shl(10, 3), BitAnd(self.addr, 7)))
      [] self.tag = "ProtectionStatus" ->
            LET dtid == Shl(6, 3) IN
            CASE self.block = 0 -> Some(BitOr(dtid, 1))
              [] self.block = 1 -> Some(BitOr(dtid, 4))
              [] self.block = 2 -> Some(BitOr(dtid, 5))
              [] self.block = 3 -> Some(BitOr(dtid, 0))
              [] OTHER -> None
      [] self.tag = "ClearAllWriteProtection" -> Some(51)
      [] self.tag = "PageAddress" ->
            LET dtid == Shl(6, 3) IN
            CASE self.page[1] = 0 -> Some(BitOr(dtid, 6))
              [] self.page[1] = 1 -> Some(BitOr(dtid, 7))
              [] OTHER -> None

\* Function::to_device_code with the protection blocks in numeric order
to_device_code_monotonic(self) ==
    CASE self.tag = "Temperature" ->
            IF self.addr <= 7 THEN Some(BitOr(Shl(3, 3), self.addr)) ELSE None
      [] self.tag = "Memory" ->
            IF self.addr <= 7 THEN Some(BitOr(Shl(10, 3), self.addr)) ELSE None
      [] self.tag = "ProtectionStatus" ->
            LET dtid == Shl(6, 3) IN
            CASE self.block = 0 -> Some(BitOr(dtid, 0))
              [] self.block = 1 -> Some(BitOr(dtid, 1))
              [] self.block = 2 -> Some(BitOr(dtid, 4))
              [] self.block = 3 -> Some(BitOr(dtid, 5))
              [] OTHER -> None
      [] self.tag = "ClearAllWriteProtection" -> Some(51)
      [] self.tag = "PageAddress" ->
            LET dtid == Shl(6, 3) IN
            CASE self.page[1] = 0 -> Some(BitOr(dtid, 6))
              [] self.page[1] = 1 -> Some(BitOr(dtid, 7))
              [] OTHER -> None

\* Function::to_device_code shifting the device type identifier by 4
to_device_code_shift4(self) ==
    CASE self.tag = "Temperature" ->
            IF self.addr <= 7 THEN Some(BitOr(Shl(3, 4), self.addr)) ELSE None
      [] self.tag = "Memory" ->
            IF self.addr <= 7 THEN Some(BitOr(Shl(10, 4), self.addr)) ELSE None
      [] self.tag = "ProtectionStatus" ->
            LET dtid == Shl(6, 3) IN
            CASE self.block = 0 -> Some(BitOr(dtid, 1))
              [] self.block = 1 -> Some(BitOr(dtid, 4))
              [] self.block = 2 -> Some(BitOr(dtid, 5))
              [] self.block = 3 -> Some(BitOr(dtid, 0))
              [] OTHER -> None
      [] self.tag = "ClearAllWriteProtection" -> Some(51)
      [] self.tag = "PageAddress" ->
            LET dtid == Shl(6, 3) IN
            CASE self.page[1] = 0 -> Some(BitOr(dtid, 6))
              [] self.page[1] = 1 -> Some(BitOr(dtid, 7))
              [] OTHER -> None

\* Function::to_device_code taking the low bit of the page
to_device_code_page_bit(self) ==
    CASE self.tag = "Temperature" ->
            IF self.addr <= 7 THEN Some(BitOr(Shl(3, 3), self.addr)) ELSE None
      [] self.tag = "Memory" ->
            IF self.addr <= 7 THEN Some(BitOr(Shl(10, 3), self.addr)) ELSE None
      [] self.tag = "ProtectionStatus" ->
            LET dtid == Shl(6, 3) IN
            CASE self.block = 0 -> Some(BitOr(dtid, 1))
              [] self.block = 1 -> Some(BitOr(dtid, 4))
              [] self.block = 2 -> Some(BitOr(dtid, 5))
              [] self.block = 3 -> Some(BitOr(dtid, 0))
              [] OTHER -> None
      [] self.tag = "ClearAllWriteProtection" -> Some(51)
      [] self.tag = "PageAddress" ->
            LET dtid == Shl(6, 3) IN
            Some(BitOr(dtid, BitOr(6, BitAnd(self.page[1], 1))))

\* Function::to_device_code
to_device_code(self) ==
    CASE self.tag = "Temperature" ->
            IF self.addr <= 7 THEN Some(BitOr(Shl(3, 3), self.addr)) ELSE None
      [] self.tag = "Memory" ->
            IF self.addr <= 7 THEN Some(BitOr(Shl(10, 3), self.addr)) ELSE None
      [] self.tag = "ProtectionStatus" ->
            LET dtid == Shl(6, 3) IN
            CASE self.block = 0 -> Some(BitOr(dtid, 1))
              [] self.block = 1 -> Some(BitOr(dtid, 4))
              [] self.block = 2 -> Some(BitOr(dtid, 5))
              [] self.block = 3 -> Some(BitOr(dtid, 0))
              [] OTHER -> None
      [] self.tag = "ClearAllWriteProtection" -> Some(51)
      [] self.tag = "PageAddress" ->
            LET dtid == Shl(6, 3) IN
            CASE self.page[1] = 0 -> Some(BitOr(dtid, 6))
              [] self.page[1] = 1 -> Some(BitOr(dtid, 7))
              [] OTHER -> None

\* Function::from_device_code with the protection blocks in numeric order
from_device_code_monotonic(c) ==
    LET device_type_identifier == Shr(c, 3)
        select_address == BitAnd(c, 7)
    IN CASE device_type_identifier = 3 -> Some(Temperature(select_address))
         [] device_type_identifier = 10 -> Some(Memory(select_address))
         [] device_type_identifier = 6 ->
                CASE select_address = 0 -> Some(ProtectionStatus(0))
                  [] select_address = 1 -> Some(ProtectionStatus(1))
                  [] select_address = 4 -> Some(ProtectionStatus(2))
                  [] select_address = 5 -> Some(ProtectionStatus(3))
                  [] select_address = 3 -> Some(ClearAllWriteProtection)
                  [] select_address = 6 -> Some(PageAddress(Page(0)))
                  [] select_address = 7 -> Some(PageAddress(Page(1)))
                  [] OTHER -> None
         [] OTHER -> None

\* Function::from_device_code with payload 0b010 falling into a defined arm
from_device_code_no_gap(c) ==
    LET device_type_identifier == Shr(c, 3)
        select_address == BitAnd(c, 7)
    IN CASE device_type_identifier = 3 -> Some(Temperature(select_address))
         [] device_type_identifier = 10 -> Some(Memory(select_address))
         [] device_type_identifier = 6 ->
                CASE select_address = 1 -> Some(ProtectionStatus(0))
                  [] select_address = 4 -> Some(ProtectionStatus(1))
                  [] select_address = 5 -> Some(ProtectionStatus(2))
                  [] select_address = 0 -> Some(ProtectionStatus(3))
                  [] select_address = 6 -> Some(PageAddress(Page(0)))
                  [] select_address = 7 -> Some(PageAddress(Page(1)))
                  [] OTHER -> Some(ClearAllWriteProtection)
         [] OTHER -> None

\* Function::from_device_code reading the identifier from bits 6..3 only
from_device_code_7bit(c) ==
    LET device_type_identifier == BitAnd(Shr(c, 3), 15)
        select_address == BitAnd(c, 7)
    IN CASE device_type_identifier = 3 -> Some(Temperature(select_address))
         [] device_type_identifier = 10 -> Some(Memory(select_address))
         [] device_type_identifier = 6 ->
                CASE select_address = 1 -> Some(ProtectionStatus(0))
                  [] select_address = 4 -> Some(ProtectionStatus(1))
                  [] select_address = 5 -> Some(ProtectionStatus(2))
                  [] select_address = 0 -> Some(ProtectionStatus(3))
                  [] select_address = 3 -> Some(ClearAllWriteProtection)
                  [] select_address = 6 -> Some(PageAddress(Page(0)))
                  [] select_address = 7 -> Some(PageAddress(Page(1)))
                  [] OTHER -> None
         [] OTHER -> None

\* Function::from_device_code
from_device_code(c) ==
    LET device_type_identifier == Shr(c, 3)
        select_address == BitAnd(c, 7)
    IN CASE device_type_identifier = 3 -> Some(Temperature(select_address))
         [] device_type_identifier = 10 -> Some(Memory(select_address))
         [] device_type_identifier = 6 ->
                CASE select_address = 1 -> Some(ProtectionStatus(0))
                  [] select_address = 4 -> Some(ProtectionStatus(1))
                  [] select_address = 5 -> Some(ProtectionStatus(2))
                  [] select_address = 0 -> Some(ProtectionStatus(3))
                  [] select_address = 3 -> Some(ClearAllWriteProtection)
                  [] select_address = 6 -> Some(PageAddress(Page(0)))
                  [] select_address = 7 -> Some(PageAddress(Page(1)))
                  [] OTHER -> None
         [] OTHER -> None

\* a byte buffer of the given length, filled with a pattern in which
\* neighbouring bytes, and the bytes 256 apart, differ
Buffer(len, seed) ==
    [k \in 1 .. len |-> ((k - 1) + 3 * ((k - 1) \div 256) + seed) % (U8_MAX + 1)]

-----------------------------------------------------------------------------
(* State machine *)

Init ==
    /\ pc = "idle"
    /\ func = ClearAllWriteProtection
    /\ code = None
    /\ back = None
    /\ i = 0
    /\ decoded = None
    /\ recoded = None
    /\ page = Page(0)
    /\ pageOffset = 0
    /\ name = "SPDDeviceSize"
    /\ buf = <<>>
    /\ byte = None

\* a caller builds a Function without a Page and encodes it
CallToDeviceCode ==
    /\ pc = "idle"
    /\ \E f \in Function :
          /\ f.tag # "PageAddress"
          /\ func' = f
          /\ code' = to_device_code(f)
    /\ pc' = "to_device_code"
    /\ UNCHANGED <<back, i, decoded, recoded, page, pageOffset, name, buf, byte>>

\* a caller constructs a Page from any u8 (the field is public)
NewPage ==
    /\ pc = "idle"
    /\ \E p \in u8 : page' = Page(p)
    /\ pc' = "Page"
    /\ UNCHANGED <<func, code, back, i, decoded, recoded, pageOffset, name, buf, byte>>

\* page.offset()
CallOffset ==
    /\ pc = "Page"
    /\ pageOffset' = offset(page)
    /\ pc' = "offset"
    /\ UNCHANGED <<func, code, back, i, decoded, recoded, page, name, buf, byte>>

\* Function::PageAddress(page).to_device_code()
CallPageAddress ==
    /\ pc = "Page"
    /\ func' = PageAddress(page)
    /\ code' = to_device_code(PageAddress(page))
    /\ pc' = "to_device_code"
    /\ UNCHANGED <<back, i, decoded, recoded, page, pageOffset, name, buf, byte>>

\* the code that to_device_code produced is decoded again
CallFromDeviceCode ==
    /\ pc = "to_device_code"
    /\ code.some
    /\ back' = from_device_code(code.val)
    /\ pc' = "from_device_code"
    /\ UNCHANGED <<func, code, i, decoded, recoded, page, pageOffset, name, buf, byte>>

\* tests::alladdr: for i in 0..=0xff
AllAddrStart ==
    /\ pc = "idle"
    /\ i' = 0
    /\ pc' = "for"
    /\ UNCHANGED <<func, code, back, decoded, recoded, page, pageOffset, name, buf, byte>>

\* tests::alladdr: if let Some(func) = Function::from_device_code(i)
AllAddrIfLet ==
    /\ pc = "for"
    /\ decoded' = from_device_code(i)
    /\ pc' = IF decoded'.some THEN "assert_eq" ELSE "next"
    /\ UNCHANGED <<func, code, back, i, recoded, page, pageOffset, name, buf, byte>>

\* tests::alladdr: assert_eq!(func.to_device_code(), Some(i))
AllAddrAssertEq ==
    /\ pc = "assert_eq"
    /\ recoded' = to_device_code(decoded.val)
    /\ pc' = IF recoded' = Some(i) THEN "next" ELSE "assert_failed"
    /\ UNCHANGED <<func, code, back, i, decoded, page, pageOffset, name, buf, byte>>

\* tests::alladdr: the next iteration, or the end of the range
AllAddrNext ==
    /\ pc = "next"
    /\ IF i < U8_MAX
          THEN i' = i + 1 /\ pc' = "for"
          ELSE i' = i /\ pc' = "passed"
    /\ UNCHANGED <<func, code, back, decoded, recoded, page, pageOffset, name, buf, byte>>

\* a caller provides a buffer
NewBuf ==
    /\ pc = "idle"
    /\ \E len \in 0 .. MAX_SIZE + MaxExtraLen, seed \in 0 .. MaxSeed :
          buf' = Buffer(len, seed)
    /\ pc' = "buf"
    /\ UNCHANGED <<func, code, back, i, decoded, recoded, page, pageOffset, name, byte>>

\* offset.within(buf)
CallWithin ==
    /\ pc = "buf"
    /\ \E o \in OffsetNames :
          /\ name' = o
          /\ byte' = within(o, buf)
    /\ pc' = "within"
    /\ UNCHANGED <<func, code, back, i, decoded, recoded, page, pageOffset, buf>>

Next ==
    \/ CallToDeviceCode
    \/ NewPage
    \/ CallOffset
    \/ CallPageAddress
    \/ CallFromDeviceCode
    \/ AllAddrStart
    \/ AllAddrIfLet
    \/ AllAddrAssertEq
    \/ AllAddrNext
    \/ NewBuf
    \/ CallWithin

Spec == Init /\ [][Next]_vars

TypeOK ==
    /\ func \in Function
    /\ code \in {None} \cup {Some(c) : c \in u8}
    /\ i \in u8
    /\ pageOffset \in {0, PAGE_SIZE}

-----------------------------------------------------------------------------
(* Properties *)

\* func and code hold an argument and the result of to_device_code
Encoded == pc \in {"to_device_code", "from_device_code"}

\* decoded holds from_device_code(i) for the current i of tests::alladdr
Decoded == pc \in {"assert_eq", "assert_failed", "next", "passed"}

\* the codes Table 2 of EE1004 assigns
DefinedCodes == (24 .. 31) \cup (80 .. 87) \cup {48, 49, 51, 52, 53, 54, 55}

\* C1: whenever to_device_code(f) yields a code, from_device_code of that code
\* yields Some(f), the same variant with the same payload.
RoundTripEncodeDecode ==
    pc = "from_device_code" => code.some /\ back = Some(func)

RoundTripEncodeDecodeWitness ==
    /\ pc = "from_device_code"
    /\ func = ProtectionStatus(3)
    /\ code = Some(48)
    /\ back = Some(ProtectionStatus(3))

\* C2: for every 8-bit value i, if from_device_code(i) is Some(f) then
\* to_device_code(f) is Some(i); the assertion of tests::alladdr never fails.
DecodeEncodeIdentity ==
    /\ pc # "assert_failed"
    /\ (pc \in {"next", "passed"} /\ decoded.some) => recoded = Some(i)

DecodeEncodeIdentityWitness ==
    /\ pc = "next"
    /\ i = 87
    /\ decoded = Some(Memory(7))
    /\ recoded = Some(87)

\* C3: to_device_code returns None exactly for Temperature/Memory addresses
\* 8..255, ProtectionStatus blocks outside 0..3 and pages outside {0,1}, and
\* Some code for every other Function value.
EncodeNoneExactlyOutOfDomain ==
    Encoded =>
        (code = None <=>
            \/ func.tag \in {"Temperature", "Memory"} /\ func.addr \in 8 .. 255
            \/ func.tag = "ProtectionStatus" /\ func.block \notin {0, 1, 2, 3}
            \/ func.tag = "PageAddress" /\ func.page[1] \notin {0, 1})

EncodeNoneExactlyOutOfDomainWitness ==
    /\ pc = "to_device_code"
    /\ func = Temperature(255)
    /\ code = None

\* C4: under device type identifier 0b0110 the seven functions encode to
\* 0x31, 0x34, 0x35, 0x30, 0x33, 0x36, 0x37 and each of these codes decodes
\* back to exactly that function.
ProtectionTableExact ==
    /\ Encoded =>
          /\ func = ProtectionStatus(0) => code = Some(49)
          /\ func = ProtectionStatus(1) => code = Some(52)
          /\ func = ProtectionStatus(2) => code = Some(53)
          /\ func = ProtectionStatus(3) => code = Some(48)
          /\ func = ClearAllWriteProtection => code = Some(51)
          /\ func = PageAddress(Page(0)) => code = Some(54)
          /\ func = PageAddress(Page(1)) => code = Some(55)
    /\ Decoded =>
          /\ i = 49 => decoded = Some(ProtectionStatus(0))
          /\ i = 52 => decoded = Some(ProtectionStatus(1))
          /\ i = 53 => decoded = Some(ProtectionStatus(2))
          /\ i = 48 => decoded = Some(ProtectionStatus(3))
          /\ i = 51 => decoded = Some(ClearAllWriteProtection)
          /\ i = 54 => decoded = Some(PageAddress(Page(0)))
          /\ i = 55 => decoded = Some(PageAddress(Page(1)))

ProtectionTableExactWitness ==
    /\ pc = "to_device_code"
    /\ func = ProtectionStatus(1)
    /\ code = Some(52)

\* C5: for a in 0..7, Temperature(a) encodes to 0x18 + a and Memory(a) to
\* 0x50 + a; every code produced has the device type identifier in bits 6..3,
\* the address in bits 2..0, and lies in 0..127.
AddressCodesExact ==
    Encoded =>
        /\ (func.tag = "Temperature" /\ func.addr <= 7) =>
              /\ code = Some(24 + func.addr)
              /\ code.val \div 8 = 3
              /\ code.val % 8 = func.addr
        /\ (func.tag = "Memory" /\ func.addr <= 7) =>
              /\ code = Some(80 + func.addr)
              /\ code.val \div 8 = 10
              /\ code.val % 8 = func.addr
        /\ code.some => code.val \in 0 .. 127

AddressCodesExactWitness ==
    /\ pc = "to_device_code"
    /\ func = Memory(1)
    /\ code = Some(81)

\* C6: for every code 0..127, from_device_code returns None when the
\* identifier code >> 3 is not 0b0011, 0b1010 or 0b0110, and for 0x32; it
\* returns Some for exactly the 23 assigned codes.
UnassignedCodesDecodeNone ==
    /\ Cardinality(DefinedCodes) = 23
    /\ (Decoded /\ i <= 127) =>
          /\ decoded.some <=> i \in DefinedCodes
          /\ i \div 8 \notin {3, 10, 6} => decoded = None
          /\ i = 50 => decoded = None

UnassignedCodesDecodeNoneWitness ==
    /\ pc = "next"
    /\ i = 50
    /\ decoded = None

\* C7 as stated: no Page whose inner value is outside {0,1} is ever passed to
\* offset() or wrapped in Function::PageAddress.
PageAlwaysZeroOrOne ==
    /\ pc = "offset" => page[1] \in {0, 1}
    /\ (Encoded /\ func.tag = "PageAddress") => func.page[1] \in {0, 1}

\* C7 amended: a Page outside {0,1} can be constructed; offset() accepts it
\* and returns PAGE_SIZE, and it is rejected only when encoded:
\* to_device_code(PageAddress(page)) returns None.
PageRejectedAtEncode ==
    /\ (pc = "offset" /\ page[1] \notin {0, 1}) => pageOffset = 256
    /\ (Encoded /\ func.tag = "PageAddress" /\ func.page[1] \notin {0, 1}) =>
          code = None

PageRejectedAtEncodeWitness ==
    /\ pc = "to_device_code"
    /\ page = Page(2)
    /\ func = PageAddress(Page(2))
    /\ code = None

\* C8: offset() is 0 for page 0 and 256 for every other page value, so it is
\* always 0 or 256 and offset() + idx stays below MAX_SIZE for idx in 0..255.
PageOffsetInImage ==
    pc = "offset" =>
        /\ pageOffset = (IF page = Page(0) THEN 0 ELSE 256)
        /\ pageOffset \in {0, 256}
        /\ \A idx \in 0 .. 255 : pageOffset + idx < 512

PageOffsetInImageWitness ==
    /\ pc = "offset"
    /\ page = Page(1)
    /\ pageOffset = 256

\* C9: every Offset is in 0x000..0x160, below MAX_SIZE; within a buffer of at
\* least 512 bytes the lookup returns buf[offset]; within a buffer no longer
\* than the offset it is an index-out-of-bounds panic.
OffsetLookupInBounds ==
    /\ \A o \in OffsetNames : to_usize(o) \in 0 .. 352 /\ to_usize(o) < 512
    /\ pc = "within" =>
          /\ Len(buf) >= 512 => byte = Some(buf[to_usize(name) + 1])
          /\ Len(buf) <= to_usize(name) => byte = Panic

OffsetLookupInBoundsWitness ==
    /\ pc = "within"
    /\ name = "DRAMStepping"
    /\ Len(buf) = 512
    /\ byte = Some(buf[353])

\* C10: for every 8-bit input 128..255 from_device_code returns None; the
\* eighth bit is not masked away.
HighBitDecodesNone ==
    (Decoded /\ i \in 128 .. 255) => decoded = None

HighBitDecodesNoneWitness ==
    /\ pc = "next"
    /\ i = 152
    /\ decoded = None

====
